---- MODULE Spec2Model ----
(***************************************************************************)
(* Acquisition sessions of the IC thermal-diffusion DAQ scripts:           *)
(*   "td"  acquire_thermal_diffusion_mcc.py                                *)
(*   "r4"  read_4_channels_and_output.py                                   *)
(*   "r2"  read_2_channels.py                                              *)
(* Each script constructs an MCCInterface and calls measure() once.  No    *)
(* script catches an exception, so a raise ends the process where it       *)
(* happens (pc = "raised").  Arrays are 0-based functions, as in numpy.    *)
(***************************************************************************)
EXTENDS Integers, Sequences, FiniteSets, TLC

VARIABLES
    script,            \* which of the three scripts runs
    devicePresent,     \* whether get_daq_device_inventory finds a board
    pc,                \* position of the interpreter in the script
    exc,               \* the exception that ended the run, or "none"
    raisedAt,          \* the position at which it was raised, or "none"
    fault,             \* a driver or filesystem call has raised
    self,              \* attributes set on the MCCInterface object
    points_per_channel,\* ain_pts_per_channel / points_per_channel
    total_count,       \* sample count passed to a_in_scan
    memhandle,         \* buffer handle -> "unset", "null", "held" or "freed"
    freed,             \* buffer handle -> number of win_buf_free calls on it
    outScan,           \* background analog-output scan
    inScan,            \* blocking analog-input scan
    log,               \* driver calls and buffer reads, in order
    inbuf,             \* memory behind the input handle (raw codes)
    np_data_array,     \* numpy view of inbuf, once as_array has been called
    actual_rate,       \* rate returned by a_in_scan
    voltage_array,     \* flat array of converted values
    i,                 \* index of the conversion loop
    matrix,            \* voltage_array after reshape
    files,             \* file name -> array written to it
    pulse_length,      \* measure() arguments, in ticks of 1/TimeDen second
    lag_time,
    duration,
    aout_pts,
    output_data        \* the output waveform

vars == <<script, devicePresent, pc, exc, raisedAt, fault, self, points_per_channel,
          total_count, memhandle, freed, outScan, inScan, log, inbuf, np_data_array,
          actual_rate, voltage_array, i, matrix, files, pulse_length, lag_time,
          duration, aout_pts, output_data>>

sessVars == <<memhandle, freed, outScan, inScan, log, inbuf>>
dataVars == <<np_data_array, actual_rate, voltage_array, i, matrix, files>>
argVars == <<pulse_length, lag_time, duration>>

----------------------------------------------------------------------------
(* Bounds of the model *)

MaxPts == 2       \* points per channel (300000 and 20000 in the scripts)
MaxCh == 3        \* input channels tried for the thermal-diffusion arithmetic
NumCodes == 3     \* distinct raw ADC codes (65536 for a c_ushort)
MaxRate == 3      \* sample rates tried, in hertz
MaxTicks == 3     \* longest pulse_length, lag_time or duration, in ticks
TimeDen == 2      \* ticks per second: measure() takes fractional seconds

(* Program constants *)

InHigh4 == 3              \* read_4_channels_and_output.py: in_high_channel
InHigh2 == 1              \* read_2_channels.py: high_channel
InHighTD == 6             \* acquire_thermal_diffusion_mcc.py: in_high_channel
CountFactor4 == 4         \* total_count = points_per_channel * 4
CountFactor2 == 2         \* total_count = points_per_channel * 2
ActiveVolts == 5          \* output_data[start_idx:stop_idx] = 5.
DecimationStride == 100   \* voltage_array[::100]

Scripts == {"td", "r4", "r2"}
DualScan == {"td", "r4"}

----------------------------------------------------------------------------
(* numpy and driver primitives *)

ArrLen(a) == Cardinality(DOMAIN a)

Cell(kind, num, den, src) == [kind |-> kind, num |-> num, den |-> den, src |-> src]

\* an element of np.zeros
ZeroCell == Cell("zero", 0, 1, -1)

\* np.zeros(len), z standing for 0.0
Zeros(len, z) == [k \in 0 .. len - 1 |-> z]

\* an array of no elements; an object of no attributes
Empty == [k \in {} |-> 0]

\* ul.to_eng_units for a bipolar range: code 0 is the negative full scale.
\* The value is in units of half an LSB.
ToEngUnits(code) == 2 * code - NumCodes

\* the buffers the driver may leave behind an input handle of len samples
RawBuffers(len) ==
    {[k \in 0 .. len - 1 |-> (s + k) % NumCodes] : s \in 0 .. NumCodes - 1}

\* a[start:stop] = v for 0 <= start: the slice is clipped to the array
SliceAssign(a, start, stop, v) ==
    [k \in DOMAIN a |-> IF start <= k /\ k < stop THEN v ELSE a[k]]

\* the positions a[::step] selects
StridedSlots(len, step) == {k \in 0 .. len - 1 : k % step = 0}

\* numpy broadcasts nvals values into nslots slots only when the counts agree
\* or there is a single value
CanBroadcast(nvals, nslots) == nvals = nslots \/ nvals = 1

\* a[::step] = vals, when CanBroadcast
StridedAssign(a, step, vals) ==
    [k \in DOMAIN a |->
        IF k % step = 0
        THEN (IF ArrLen(vals) = 1 THEN vals[0] ELSE vals[k \div step])
        ELSE a[k]]

\* a.reshape(-1, width), when ArrLen(a) % width = 0
ReshapeRows(a, width) ==
    [r \in 0 .. (ArrLen(a) \div width) - 1 |->
        [c \in 0 .. width - 1 |-> a[r * width + c]]]

\* m[::stride]
Decimate(m, stride) ==
    LET keep == {r \in DOMAIN m : r % stride = 0}
    IN  [r \in 0 .. Cardinality(keep) - 1 |-> m[r * stride]]

----------------------------------------------------------------------------
(* Pure arithmetic of measure() *)

\* np.floor(t * rate).astype('int') for a time of t ticks
FloorPts(t, rate) == (t * rate) \div TimeDen

\* aout_pts of the thermal-diffusion measure()
AoutPts(lag, dur, rate) == FloorPts(lag + dur, rate)

StartIdx(lag, rate) == FloorPts(lag, rate)

\* variant: the end index without the start offset
StopIdxNoOffset(pulse, lag, rate) == FloorPts(pulse, rate)

StopIdx(pulse, lag, rate) == StartIdx(lag, rate) + FloorPts(pulse, rate)

\* output_data of the thermal-diffusion measure()
OutputData(pulse, lag, dur, rate) ==
    SliceAssign(Zeros(AoutPts(lag, dur, rate), 0),
                StartIdx(lag, rate), StopIdx(pulse, lag, rate), ActiveVolts)

\* variant: a factor that is not the channel count
TotalCountThree(s, pts) == pts * 3

\* the count the 4-channel and 2-channel scripts pass to a_in_scan
TotalCount(s, pts) ==
    IF s = "r4" THEN pts * CountFactor4 ELSE pts * CountFactor2

\* the stride of the slice that receives the times
TimeStride(n) == n

\* where the conversion loop stores sample k
VoltagePos(s, k, n) == IF s = "td" THEN k + 1 + (k \div n) ELSE k

----------------------------------------------------------------------------
(* The MCCInterface object *)

HasAttr(obj, a) == a \in DOMAIN obj

SetAttr(obj, a, v) ==
    [x \in DOMAIN obj \cup {a} |-> IF x = a THEN v ELSE obj[x]]

LowName(s) == IF s = "r2" THEN "low_channel" ELSE "in_low_channel"

HighName(s) == IF s = "r2" THEN "high_channel" ELSE "in_high_channel"

InHigh(s) == IF s = "td" THEN InHighTD ELSE IF s = "r4" THEN InHigh4 ELSE InHigh2

\* in_high_channel - in_low_channel + 1
ChannelSpan(s, obj) == obj[HighName(s)] - obj[LowName(s)] + 1

\* the row width handed to reshape
RowWidth(s, obj) ==
    IF s = "td" THEN obj["n_in_channels"] + 1 ELSE ChannelSpan(s, obj)

Handles == {"input", "output"}

\* variant: the clean-up placed before the save
MeasureOrderCleanupFirst(s) ==
    IF s = "r2"
    THEN <<"counts", "alloc_in", "in_scan", "as_array", "zeros", "convert",
           "free", "save", "returned">>
    ELSE <<"counts", "alloc_in", "alloc_out", "out_scan", "in_scan", "as_array",
           "zeros", "convert", "reshape", "free", "stop", "save", "returned">>

\* the statements of measure(), in the order the script executes them
MeasureOrder(s) ==
    IF s = "r2"
    THEN <<"counts", "alloc_in", "in_scan", "as_array", "zeros", "convert",
           "save", "free", "returned">>
    ELSE <<"counts", "alloc_in", "alloc_out", "out_scan", "in_scan", "as_array",
           "zeros", "convert", "reshape", "save", "free", "stop", "returned">>

\* the statement that follows l
After(s, l) ==
    LET order == MeasureOrder(s)
        k == CHOOSE j \in 1 .. Len(order) : order[j] = l
    IN  order[k + 1]

\* variant: a placeholder device when the inventory is empty
FirstDeviceFallback(present) == "device"

\* devices[0]
FirstDevice(present) == IF present THEN "device" ELSE "IndexError"

Terminated == pc \in {"returned", "raised"}

\* an uncaught exception ends the process
Raise(e, isFault) ==
    /\ pc' = "raised"
    /\ exc' = e
    /\ raisedAt' = pc
    /\ fault' = (fault \/ isFault)

Goto(l) ==
    /\ pc' = l
    /\ UNCHANGED <<exc, raisedAt, fault>>

\* a driver call that raises ULError on failure
DriverFails == Raise("ULError", TRUE)

\* what a driver call does with a handle that is 0
NullHandleOutcomes == {"ULError", "AccessViolation"}

----------------------------------------------------------------------------
(* MCCInterface.__init__ *)

\* ignore_instacal, get_daq_device_inventory, create_daq_device(0, devices[0])
Discover ==
    /\ pc = "discover"
    /\ self' = SetAttr(self, "board_number", 0)
    /\ IF FirstDevice(devicePresent) = "IndexError"
       THEN Raise("IndexError", FALSE)
       ELSE \E ok \in BOOLEAN : IF ok THEN Goto("configure") ELSE DriverFails
    /\ UNCHANGED <<script, devicePresent, points_per_channel, total_count,
                   sessVars, dataVars, argVars, aout_pts, output_data>>

\* the channel attributes, the range queries and a_input_mode
Configure ==
    /\ pc = "configure"
    /\ LET s1 == SetAttr(SetAttr(self, LowName(script), 0),
                         HighName(script), InHigh(script))
           s2 == IF script = "r2" THEN s1
                 ELSE SetAttr(SetAttr(s1, "out_low_channel", 0), "out_high_channel", 0)
           s3 == IF script = "td"
                 THEN SetAttr(SetAttr(s2, "adc_rate_per_channel", 10000), "dac_rate", 100)
                 ELSE s2
       IN  IF script = "td" /\ ~HasAttr(s1, "n_in_channels")
           THEN \* line 50 reads self.n_in_channels, which nothing has set
                /\ self' = s1
                /\ Raise("AttributeError", FALSE)
           ELSE \E ok \in BOOLEAN :
                IF ok THEN self' = s3 /\ Goto(MeasureOrder(script)[1])
                      ELSE self' = s2 /\ DriverFails
    /\ UNCHANGED <<script, devicePresent, points_per_channel, total_count,
                   sessVars, dataVars, argVars, aout_pts, output_data>>

----------------------------------------------------------------------------
(* MCCInterface.measure *)

\* the point counts
ComputeCounts ==
    /\ pc = "counts"
    /\ IF script = "td"
       THEN IF HasAttr(self, "n_in_channels")
            THEN /\ points_per_channel' =
                        FloorPts(lag_time + duration, self["adc_rate_per_channel"])
                 /\ aout_pts' = AoutPts(lag_time, duration, self["dac_rate"])
                 /\ total_count' = points_per_channel' * self["n_in_channels"]
                 /\ Goto(After(script, "counts"))
            ELSE /\ points_per_channel' =
                        FloorPts(lag_time + duration, self["adc_rate_per_channel"])
                 /\ aout_pts' = AoutPts(lag_time, duration, self["dac_rate"])
                 /\ Raise("AttributeError", FALSE)
                 /\ UNCHANGED total_count
       ELSE \E p \in 1 .. MaxPts :
                /\ points_per_channel' = p
                /\ total_count' = TotalCount(script, p)
                /\ Goto(After(script, "counts"))
                /\ UNCHANGED aout_pts
    /\ UNCHANGED <<script, devicePresent, self, sessVars, dataVars, argVars,
                   output_data>>

\* win_buf_alloc returns 0 when it cannot allocate, and measure() does not
\* look at the handle.  The thermal-diffusion script passes total_count, a name
\* that measure() never binds.
AllocInput ==
    /\ pc = "alloc_in"
    /\ IF script = "td"
       THEN /\ Raise("NameError", FALSE)
            /\ UNCHANGED <<memhandle, inbuf, log>>
       ELSE \E ok \in BOOLEAN :
               /\ log' = Append(log, "win_buf_alloc")
               /\ pc' = After(script, "alloc_in")
               /\ UNCHANGED <<exc, raisedAt>>
               /\ IF ok
                  THEN /\ memhandle' = [memhandle EXCEPT !["input"] = "held"]
                       /\ inbuf' \in RawBuffers(total_count)
                       /\ fault' = fault
                  ELSE /\ memhandle' = [memhandle EXCEPT !["input"] = "null"]
                       /\ inbuf' = inbuf
                       /\ fault' = TRUE
    /\ UNCHANGED <<script, devicePresent, self, points_per_channel, total_count,
                   freed, outScan, inScan, dataVars, argVars, aout_pts, output_data>>

\* the output waveform, scaled_win_buf_alloc and scaled_win_array_to_buf
AllocOutput ==
    /\ pc = "alloc_out"
    /\ output_data' = IF script = "td"
                      THEN OutputData(pulse_length, lag_time, duration, self["dac_rate"])
                      ELSE output_data
    /\ log' = Append(log, "scaled_win_buf_alloc")
    /\ \E ok \in BOOLEAN :
          IF ok
          THEN /\ memhandle' = [memhandle EXCEPT !["output"] = "held"]
               /\ \E copied \in BOOLEAN : IF copied THEN Goto(After(script, "alloc_out"))
                                                     ELSE DriverFails
          ELSE \* scaled_win_array_to_buf is handed the handle 0
               /\ memhandle' = [memhandle EXCEPT !["output"] = "null"]
               /\ \E e \in NullHandleOutcomes : Raise(e, TRUE)
    /\ UNCHANGED <<script, devicePresent, self, points_per_channel, total_count,
                   freed, outScan, inScan, inbuf, dataVars, argVars, aout_pts>>

\* a_out_scan with BACKGROUND | SCALEDATA: returns once playback has started
AOutScan ==
    /\ pc = "out_scan"
    /\ \E ok \in BOOLEAN :
          IF ok
          THEN /\ outScan' = "running"
               /\ log' = Append(log, "a_out_scan")
               /\ Goto(After(script, "out_scan"))
          ELSE /\ DriverFails
               /\ UNCHANGED <<outScan, log>>
    /\ UNCHANGED <<script, devicePresent, self, points_per_channel, total_count,
                   memhandle, freed, inScan, inbuf, dataVars, argVars, aout_pts,
                   output_data>>

\* the driver plays the last output sample
OutScanFinish ==
    /\ outScan = "running"
    /\ ~Terminated
    /\ outScan' = "finished"
    /\ UNCHANGED <<script, devicePresent, pc, exc, raisedAt, fault, self,
                   points_per_channel, total_count, memhandle, freed, inScan, log, inbuf, dataVars,
                   argVars, aout_pts, output_data>>

\* variant: a_in_scan with ScanOptions.BACKGROUND returns at once
AfterScanStartBackground == "as_array"

\* where the interpreter is once a_in_scan (options 0) has started the scan:
\* inside the call, until the scan completes
AfterScanStart == "in_wait"

\* the call of a_in_scan
AInScan ==
    /\ pc = "in_scan"
    /\ IF memhandle["input"] = "null"
       THEN /\ \E e \in NullHandleOutcomes : Raise(e, TRUE)
            /\ UNCHANGED <<inScan, log>>
       ELSE \E ok \in BOOLEAN :
               IF ok
               THEN /\ inScan' = "running"
                    /\ log' = Append(log, "a_in_scan")
                    /\ Goto(AfterScanStart)
               ELSE /\ DriverFails
                    /\ UNCHANGED <<inScan, log>>
    /\ UNCHANGED <<script, devicePresent, self, points_per_channel, total_count,
                   memhandle, freed, outScan, inbuf, dataVars, argVars, aout_pts,
                   output_data>>

\* the driver fills the buffer and a_in_scan returns the achieved rate, or the
\* scan breaks off and a_in_scan raises
AInScanComplete ==
    /\ inScan = "running"
    /\ ~Terminated
    /\ \E ok \in BOOLEAN :
          IF ok
          THEN /\ inScan' = "done"
               /\ inbuf' \in RawBuffers(total_count)
               /\ actual_rate' \in (IF script = "td" THEN 1 .. MaxRate ELSE {actual_rate})
               /\ log' = Append(log, "a_in_scan_done")
               /\ Goto(IF pc = "in_wait" THEN After(script, "in_scan") ELSE pc)
          ELSE /\ inScan' = "aborted"
               /\ DriverFails
               /\ UNCHANGED <<inbuf, actual_rate, log>>
    /\ UNCHANGED <<script, devicePresent, self, points_per_channel, total_count,
                   memhandle, freed, outScan, np_data_array, voltage_array, i,
                   matrix, files, argVars, aout_pts, output_data>>

\* np.ctypeslib.as_array: a view of the buffer, not a copy
AsArray ==
    /\ pc = "as_array"
    /\ np_data_array' = total_count
    /\ log' = Append(log, "as_array")
    /\ Goto(After(script, "as_array"))
    /\ UNCHANGED <<script, devicePresent, self, points_per_channel, total_count,
                   memhandle, freed, outScan, inScan, inbuf, actual_rate,
                   voltage_array, i, matrix, files, argVars, aout_pts, output_data>>

\* np.zeros for the converted values; the thermal-diffusion script also
\* writes the row times through a strided slice
InitVoltageArray ==
    /\ pc = "zeros"
    /\ i' = 0
    /\ IF script = "td"
       THEN LET n == self["n_in_channels"]
                va0 == Zeros(total_count + points_per_channel, ZeroCell)
                times == [r \in 0 .. points_per_channel - 1 |->
                             Cell("time", r, actual_rate, -1)]
                slots == StridedSlots(ArrLen(va0), TimeStride(n))
            IN  IF CanBroadcast(ArrLen(times), Cardinality(slots))
                THEN /\ voltage_array' = StridedAssign(va0, TimeStride(n), times)
                     /\ Goto(After(script, "zeros"))
                ELSE /\ voltage_array' = va0
                     /\ Raise("ValueError", FALSE)
       ELSE /\ voltage_array' = Zeros(np_data_array, ZeroCell)
            /\ Goto(After(script, "zeros"))
    /\ UNCHANGED <<script, devicePresent, self, points_per_channel, total_count,
                   sessVars, np_data_array, actual_rate, matrix, files, argVars,
                   aout_pts, output_data>>

\* one pass of the conversion loop, or its end
ConvertStep ==
    /\ pc = "convert"
    /\ IF i < np_data_array
       THEN LET n == IF script = "td" THEN self["n_in_channels"] ELSE 1
                pos == VoltagePos(script, i, n)
            IN  \E ok \in BOOLEAN :
                   /\ log' = IF i = 0 THEN Append(log, "read_raw") ELSE log
                   /\ IF ~ok
                      THEN DriverFails /\ UNCHANGED <<voltage_array, i>>
                      ELSE IF pos \notin DOMAIN voltage_array
                      THEN Raise("IndexError", FALSE) /\ UNCHANGED <<voltage_array, i>>
                      ELSE /\ voltage_array' =
                                [voltage_array EXCEPT
                                    ![pos] = Cell("volt", ToEngUnits(inbuf[i]), 1, i)]
                           /\ i' = i + 1
                           /\ Goto("convert")
       ELSE /\ Goto(After(script, "convert"))
            /\ UNCHANGED <<voltage_array, i, log>>
    /\ UNCHANGED <<script, devicePresent, self, points_per_channel, total_count,
                   memhandle, freed, outScan, inScan, inbuf, np_data_array,
                   actual_rate, matrix, files, argVars, aout_pts, output_data>>

\* voltage_array.reshape(-1, width)
Reshape ==
    /\ pc = "reshape"
    /\ LET width == RowWidth(script, self)
       IN  IF ArrLen(voltage_array) % width = 0
           THEN /\ matrix' = ReshapeRows(voltage_array, width)
                /\ Goto(After(script, "reshape"))
           ELSE /\ Raise("ValueError", FALSE)
                /\ UNCHANGED matrix
    /\ UNCHANGED <<script, devicePresent, self, points_per_channel, total_count,
                   sessVars, np_data_array, actual_rate, voltage_array, i, files,
                   argVars, aout_pts, output_data>>

\* the files measure() writes, in order
SaveNames(s) ==
    IF s = "td" THEN <<"npy", "100Hz_npy", "100Hz_txt">> ELSE <<"npy">>

\* what goes into file f
SaveContent(s, f) ==
    IF s = "r2" THEN voltage_array
    ELSE IF f = "npy" THEN matrix
    ELSE Decimate(matrix, DecimationStride)

\* the next np.save or np.savetxt
Save ==
    /\ pc = "save"
    /\ LET names == SaveNames(script)
           k == ArrLen(files) + 1
       IN  \E ok \in BOOLEAN :
              IF ok
              THEN /\ files' = SetAttr(files, names[k], SaveContent(script, names[k]))
                   /\ Goto(IF k = Len(names) THEN After(script, "save") ELSE "save")
              ELSE /\ Raise("OSError", TRUE)
                   /\ UNCHANGED files
    /\ UNCHANGED <<script, devicePresent, self, points_per_channel, total_count,
                   sessVars, np_data_array, actual_rate, voltage_array, i, matrix,
                   argVars, aout_pts, output_data>>

\* win_buf_free of the input handle; the output handle is never passed to it
FreeInput ==
    /\ pc = "free"
    /\ \E ok \in BOOLEAN :
          IF ok
          THEN /\ memhandle' = [memhandle EXCEPT !["input"] = "freed"]
               /\ freed' = [freed EXCEPT !["input"] = @ + 1]
               /\ log' = Append(log, "win_buf_free")
               /\ Goto(After(script, "free"))
          ELSE /\ DriverFails
               /\ UNCHANGED <<memhandle, freed, log>>
    /\ UNCHANGED <<script, devicePresent, self, points_per_channel, total_count,
                   outScan, inScan, inbuf, dataVars, argVars, aout_pts, output_data>>

\* stop_background(board_number, AOFUNCTION)
StopBackground ==
    /\ pc = "stop"
    /\ \E ok \in BOOLEAN :
          IF ok
          THEN /\ outScan' = "stopped"
               /\ log' = Append(log, "stop_background")
               /\ Goto(After(script, "stop"))
          ELSE /\ DriverFails
               /\ UNCHANGED <<outScan, log>>
    /\ UNCHANGED <<script, devicePresent, self, points_per_channel, total_count,
                   memhandle, freed, inScan, inbuf, dataVars, argVars, aout_pts,
                   output_data>>

----------------------------------------------------------------------------
(* The three scripts, from the first line of __main__ *)

Ticks == 0 .. MaxTicks

Init ==
    /\ script \in Scripts
    /\ devicePresent \in BOOLEAN
    /\ pc = "discover"
    /\ exc = "none"
    /\ raisedAt = "none"
    /\ fault = FALSE
    /\ self = Empty
    /\ points_per_channel = 0
    /\ total_count = 0
    /\ memhandle = [h \in Handles |-> "unset"]
    /\ freed = [h \in Handles |-> 0]
    /\ outScan = "idle"
    /\ inScan = "idle"
    /\ log = <<>>
    /\ inbuf = Empty
    /\ np_data_array = 0
    /\ actual_rate = 0
    /\ voltage_array = Empty
    /\ i = 0
    /\ matrix = Empty
    /\ files = Empty
    /\ pulse_length \in (IF script = "td" THEN Ticks ELSE {0})
    /\ lag_time \in (IF script = "td" THEN Ticks ELSE {0})
    /\ duration \in (IF script = "td" THEN Ticks ELSE {0})
    /\ aout_pts = 0
    /\ output_data = Empty

Next ==
    \/ Discover
    \/ Configure
    \/ ComputeCounts
    \/ AllocInput
    \/ AllocOutput
    \/ AOutScan
    \/ OutScanFinish
    \/ AInScan
    \/ AInScanComplete
    \/ AsArray
    \/ InitVoltageArray
    \/ ConvertStep
    \/ Reshape
    \/ Save
    \/ FreeInput
    \/ StopBackground

Spec == Init /\ [][Next]_vars

----------------------------------------------------------------------------
(* The output waveform of the thermal-diffusion measure() as a function of   *)
(* its arguments and of self.dac_rate: the statements that compute aout_pts  *)
(* and output_data, applied to every argument within the bounds.             *)

\* aout_pts = np.floor(total_meas_time_sec * self.dac_rate).astype('int')
WaveCounts ==
    /\ pc = "wave_counts"
    /\ aout_pts' = AoutPts(lag_time, duration, self["dac_rate"])
    /\ pc' = "wave_build"
    /\ UNCHANGED <<script, devicePresent, exc, raisedAt, fault, self,
                   points_per_channel, total_count, sessVars, dataVars, argVars,
                   output_data>>

\* output_data = np.zeros(aout_pts); output_data[start_idx:stop_idx] = 5.
WaveBuild ==
    /\ pc = "wave_build"
    /\ output_data' = OutputData(pulse_length, lag_time, duration, self["dac_rate"])
    /\ pc' = "wave_done"
    /\ UNCHANGED <<script, devicePresent, exc, raisedAt, fault, self,
                   points_per_channel, total_count, sessVars, dataVars, argVars,
                   aout_pts>>

InitWave ==
    /\ script = "td"
    /\ devicePresent = TRUE
    /\ pc = "wave_counts"
    /\ exc = "none"
    /\ raisedAt = "none"
    /\ fault = FALSE
    /\ \E rate \in 1 .. MaxRate : self = SetAttr(Empty, "dac_rate", rate)
    /\ points_per_channel = 0
    /\ total_count = 0
    /\ memhandle = [h \in Handles |-> "unset"]
    /\ freed = [h \in Handles |-> 0]
    /\ outScan = "idle"
    /\ inScan = "idle"
    /\ log = <<>>
    /\ inbuf = Empty
    /\ np_data_array = 0
    /\ actual_rate = 0
    /\ voltage_array = Empty
    /\ i = 0
    /\ matrix = Empty
    /\ files = Empty
    /\ pulse_length \in Ticks
    /\ lag_time \in Ticks
    /\ duration \in Ticks
    /\ aout_pts = 0
    /\ output_data = Empty

NextWave == WaveCounts \/ WaveBuild

SpecWave == InitWave /\ [][NextWave]_vars

----------------------------------------------------------------------------
(* Conversion, reshape and save as a function of the channel count, the     *)
(* points per channel, the raw buffer and the achieved rate: the statements  *)
(* of measure() from np.zeros on, entered with the input scan complete.      *)

\* the object as __init__ of the 4-channel script leaves it
Object4 ==
    SetAttr(SetAttr(SetAttr(SetAttr(SetAttr(Empty, "board_number", 0),
        "in_low_channel", 0), "in_high_channel", InHigh4),
        "out_low_channel", 0), "out_high_channel", 0)

InitMatrix ==
    /\ script \in DualScan
    /\ devicePresent = TRUE
    /\ pc = "zeros"
    /\ exc = "none"
    /\ raisedAt = "none"
    /\ fault = FALSE
    /\ IF script = "td"
       THEN \E n \in 1 .. MaxCh, pts \in 0 .. MaxPts :
               /\ self = SetAttr(Empty, "n_in_channels", n)
               /\ points_per_channel = pts
               /\ total_count = pts * n
               /\ actual_rate \in 1 .. MaxRate
       ELSE \E pts \in 1 .. MaxPts :
               /\ self = Object4
               /\ points_per_channel = pts
               /\ total_count = TotalCount(script, pts)
               /\ actual_rate = 0
    /\ memhandle = [h \in Handles |-> "held"]
    /\ freed = [h \in Handles |-> 0]
    /\ outScan \in {"running", "finished"}
    /\ inScan = "done"
    /\ log = <<"win_buf_alloc", "scaled_win_buf_alloc", "a_out_scan", "a_in_scan",
               "a_in_scan_done", "as_array">>
    /\ inbuf \in RawBuffers(total_count)
    /\ np_data_array = total_count
    /\ voltage_array = Empty
    /\ i = 0
    /\ matrix = Empty
    /\ files = Empty
    /\ pulse_length = 0
    /\ lag_time = 0
    /\ duration = 0
    /\ aout_pts = 0
    /\ output_data = Empty

NextMatrix == InitVoltageArray \/ ConvertStep \/ Reshape \/ Save

SpecMatrix == InitMatrix /\ [][NextMatrix]_vars

----------------------------------------------------------------------------
(* Properties *)

Happened(e) == \E k \in 1 .. Len(log) : log[k] = e

At(e) == CHOOSE k \in 1 .. Len(log) : log[k] = e

Before(a, b) == Happened(a) /\ Happened(b) /\ At(a) < At(b)

AllSaved == ArrLen(files) = Len(SaveNames(script))

NothingStarted ==
    /\ \A h \in Handles : memhandle[h] = "unset"
    /\ outScan = "idle"
    /\ inScan = "idle"
    /\ files = Empty
    /\ log = <<>>

\* C1: in the two dual-scan scripts the background output scan is started
\* before the input scan, the input scan completes before the raw buffer is
\* viewed and read, stop_background comes after the input scan has completed,
\* and the raw buffer is never read while the input scan is in progress.
C1_ScanOrder ==
    script \in DualScan =>
        /\ Happened("a_in_scan") => Before("a_out_scan", "a_in_scan")
        /\ Happened("a_in_scan_done") => Before("a_in_scan", "a_in_scan_done")
        /\ Happened("as_array") => Before("a_in_scan_done", "as_array")
        /\ Happened("read_raw") => Before("as_array", "read_raw")
        /\ Happened("stop_background") => Before("a_in_scan_done", "stop_background")
        /\ inScan = "running" => ~Happened("as_array") /\ ~Happened("read_raw")

C1_Witness ==
    /\ script = "r4"
    /\ pc = "returned"
    /\ Happened("read_raw")
    /\ Happened("stop_background")

C3_FreedOnce ==
    pc = "returned" =>
        \A h \in Handles :
            /\ memhandle[h] # "held"
            /\ freed[h] <= 1
            /\ memhandle[h] = "freed" => freed[h] = 1

\* C4: when no device is found, or create_daq_device fails, the session ends
\* in __init__: no buffer is allocated, no scan is started, no file is written.
C4_NoDeviceNoMeasurement ==
    /\ (~devicePresent \/ raisedAt = "discover") =>
            pc \in {"discover", "raised"} /\ NothingStarted
    /\ (~devicePresent /\ pc # "discover") => pc = "raised" /\ exc = "IndexError"

C4_Witness ==
    /\ ~devicePresent
    /\ pc = "raised"
    /\ raisedAt = "discover"

\* C5: a failed buffer allocation, scan start or sample conversion ends the
\* session at once (no driver call is completed after the failed one), without
\* a file; a file is written only after every step before it has succeeded and
\* every raw sample has been converted.
C5_FailFast ==
    /\ fault => (pc = "raised" \/ log[Len(log)] = "win_buf_alloc")
    /\ (pc = "raised" /\ raisedAt \in {"alloc_in", "alloc_out", "out_scan",
                                        "in_scan", "in_wait", "convert"})
            => files = Empty
    /\ files # Empty =>
            /\ i = np_data_array
            /\ raisedAt \in {"none", "save", "free", "stop"}

\* C6: the count passed to a_in_scan is points per channel times
\* in_high_channel - in_low_channel + 1, and the array handed to reshape has a
\* length divisible by the row width.
C6_CountDivisible ==
    /\ Happened("a_in_scan") =>
            /\ total_count = points_per_channel * ChannelSpan(script, self)
            /\ total_count % ChannelSpan(script, self) = 0
    /\ pc = "reshape" => ArrLen(voltage_array) % RowWidth(script, self) = 0
    /\ exc # "ValueError"

C6_Witness ==
    /\ script = "r4"
    /\ pc = "save"
    /\ points_per_channel > 1
    /\ ArrLen(matrix) = points_per_channel

\* C7: with a device present and every driver and file call succeeding, each
\* of the three sessions ends by returning from measure() with all its files
\* written.
C7_SessionsComplete ==
    (devicePresent /\ ~fault /\ Terminated) => pc = "returned" /\ AllSaved

\* C8: the matrix of measure() holds, for every row r and channel c, the
\* conversion of raw sample r*n + c: in column c in the 4-channel script, in
\* column c + 1 in the thermal-diffusion script, where column 0 holds no sample.
C8_MatrixRecoversBuffer ==
    (~fault /\ pc \in {"save", "free", "raised"}) =>
        LET n == IF script = "td" THEN self["n_in_channels"]
                                  ELSE ChannelSpan(script, self)
            off == IF script = "td" THEN 1 ELSE 0
        IN  /\ DOMAIN matrix = 0 .. points_per_channel - 1
            /\ \A r \in 0 .. points_per_channel - 1 :
                  /\ \A c \in 0 .. n - 1 :
                        matrix[r][c + off] =
                            Cell("volt", ToEngUnits(inbuf[r * n + c]), 1, r * n + c)
                  /\ script = "td" => matrix[r][0].kind # "volt"

\* C9: for R >= 1 rows the saved matrix of the thermal-diffusion measure()
\* holds r / actual_rate in column 0 of row r and no time in any other column.
C9_TimeColumn ==
    (script = "td" /\ points_per_channel >= 1 /\ ~fault /\ pc \in {"free", "raised"}) =>
        /\ HasAttr(files, "npy")
        /\ DOMAIN files["npy"] = 0 .. points_per_channel - 1
        /\ \A r \in 0 .. points_per_channel - 1 :
              /\ files["npy"][r][0] = Cell("time", r, actual_rate, -1)
              /\ \A c \in 1 .. self["n_in_channels"] : files["npy"][r][c].kind # "time"

\* C10: stop_background and win_buf_free are reached only after every save
\* has succeeded; when the input scan, the conversion or a save raises after
\* a_out_scan, the run ends with the output scan never stopped and the input
\* buffer never freed.
C10_NoStopOnExit ==
    /\ Happened("win_buf_free") => AllSaved /\ raisedAt \in {"none", "stop"}
    /\ Happened("stop_background") => AllSaved /\ exc = "none" /\ Happened("win_buf_free")
    /\ (/\ pc = "raised"
        /\ Happened("a_out_scan")
        /\ raisedAt \in {"in_scan", "in_wait", "zeros", "convert", "reshape", "save"})
            => /\ ~Happened("stop_background")
               /\ outScan \in {"running", "finished"}
               /\ freed["input"] = 0
               /\ memhandle["input"] \in {"held", "null"}
               /\ Happened("a_in_scan") => memhandle["input"] = "held"

C10_Witness ==
    /\ pc = "raised"
    /\ raisedAt = "save"
    /\ outScan = "running"
    /\ memhandle["input"] = "held"
    /\ ~Happened("stop_background")

====
